---- MODULE Spec2Model ----
(***************************************************************************)
(* Booking backend: POST /api/book as served by the Express application    *)
(* (src/server.js) and by the serverless handler (src/unnamed/part_000).   *)
(* One request is a short chain of awaited calls against the calendar      *)
(* collaborator: freebusy.query, events.insert, optional events.delete.    *)
(*                                                                         *)
(* Time values are counted in minutes; seconds and milliseconds are left   *)
(* untouched by every operation of the handler (setMinutes keeps them).    *)
(***************************************************************************)
EXTENDS Integers, Sequences, FiniteSets, TLC

VARIABLES env, pc, req, loc, calls, resp, stages, calendar, placeholders

vars == <<env, pc, req, loc, calls, resp, stages, calendar, placeholders>>

(* ------------------------------ bounds -------------------------------- *)

\* Number of requests handled concurrently in the race specification.
NumReqs == 2

\* Largest representable time value of a Date (TimeClip limit), in minutes.
MaxInstant == 300

AllReqs == 1 .. NumReqs

(* --------------------------- JavaScript values ------------------------ *)

\* A JSON / environment value: undefined, null, a number, a string of
\* characters, or a string holding an ISO-8601 date-time (wall-clock minutes
\* n, designator z: "Z", "offset" with offset o, or "local" for none).
Undef == [t |-> "undefined", s |-> <<>>, n |-> 0, z |-> "-", o |-> 0]
Null == [t |-> "null", s |-> <<>>, n |-> 0, z |-> "-", o |-> 0]
Num(k) == [t |-> "number", s |-> <<>>, n |-> k, z |-> "-", o |-> 0]
Str(cs) == [t |-> "string", s |-> cs, n |-> 0, z |-> "-", o |-> 0]
DateStr(w, zz, off) == [t |-> "datestr", s |-> <<>>, n |-> w, z |-> zz, o |-> off]
IsoZ(w) == DateStr(w, "Z", 0)

IsString(v) == v.t \in {"string", "datestr"}

\* JavaScript truthiness of a value (used by `x || y`).
Truthy(v) ==
  CASE v.t = "undefined" -> FALSE
    [] v.t = "null" -> FALSE
    [] v.t = "number" -> v.n # 0
    [] v.t = "string" -> Len(v.s) > 0
    [] OTHER -> TRUE

WhiteSpace == {" ", "\t"}

RECURSIVE TrimStart(_)
TrimStart(cs) ==
  IF cs # <<>> /\ Head(cs) \in WhiteSpace THEN TrimStart(Tail(cs)) ELSE cs

RECURSIVE TrimEnd(_)
TrimEnd(cs) ==
  IF cs # <<>> /\ cs[Len(cs)] \in WhiteSpace
  THEN TrimEnd(SubSeq(cs, 1, Len(cs) - 1))
  ELSE cs

\* String.prototype.trim on the characters of a string.
Trim(cs) == TrimEnd(TrimStart(cs))

\* The text of a string value after trim(); a date-time string has no
\* surrounding white space and is not blank.
Trimmed(v) == IF v.t = "string" THEN Str(Trim(v.s)) ELSE v

mustString(v) ==
  /\ IsString(v)
  /\ (v.t = "string" => Len(Trim(v.s)) > 0)

\* /^[^\s@]+@[^\s@]+\.[^\s@]+$/
isEmail(v) ==
  /\ v.t = "string"
  /\ \E i \in 1 .. Len(v.s) :
       /\ v.s[i] = "@"
       /\ i > 1
       /\ \A k \in (1 .. Len(v.s)) \ {i} : v.s[k] \notin (WhiteSpace \cup {"@"})
       /\ \E j \in (i + 2) .. (Len(v.s) - 1) : v.s[j] = "."

(* ------------------------------- numbers ------------------------------ *)

NaN == [nan |-> TRUE, v |-> 0]
Finite(k) == [nan |-> FALSE, v |-> k]

Digits == {"0", "1", "2", "3", "4", "5", "6", "7", "8", "9"}

DigitVal(c) ==
  CASE c = "0" -> 0 [] c = "1" -> 1 [] c = "2" -> 2 [] c = "3" -> 3
    [] c = "4" -> 4 [] c = "5" -> 5 [] c = "6" -> 6 [] c = "7" -> 7
    [] c = "8" -> 8 [] c = "9" -> 9

RECURSIVE DecimalValue(_)
DecimalValue(cs) ==
  IF cs = <<>> THEN 0
  ELSE 10 * DecimalValue(SubSeq(cs, 1, Len(cs) - 1)) + DigitVal(cs[Len(cs)])

AllDigits(cs) == cs # <<>> /\ \A i \in 1 .. Len(cs) : cs[i] \in Digits

\* Number(s) for a string of characters: white space is trimmed, the empty
\* string is 0, an optionally signed run of digits is its value, anything
\* else is NaN.
NumericLiteral(t) ==
  IF t = <<>> THEN Finite(0)
  ELSE IF AllDigits(t) THEN Finite(DecimalValue(t))
  ELSE IF Head(t) = "-" /\ AllDigits(Tail(t)) THEN Finite(0 - DecimalValue(Tail(t)))
  ELSE IF Head(t) = "+" /\ AllDigits(Tail(t)) THEN Finite(DecimalValue(Tail(t)))
  ELSE NaN

StringToNumber(cs) == NumericLiteral(Trim(cs))

(* -------------------------------- dates ------------------------------- *)

\* TimeClip: a time value outside the Date range is NaN.
TimeClip(k) == IF k < 0 - MaxInstant \/ k > MaxInstant THEN NaN ELSE Finite(k)

\* The host process's time zone: offset `before` until the transition
\* instant `at`, offset `after` from then on (minutes east of UTC).
LocalTZA(tz, t) == IF t < tz.at THEN tz.before ELSE tz.after

LocalTime(tz, t) == t + LocalTZA(tz, t)

\* UTC(tlocal): a local time that repeats at a negative transition, or is
\* skipped at a positive one, is read with the offset before the transition.
UTC(tz, tl) ==
  LET viaBefore == tl - tz.before
      viaAfter == tl - tz.after
  IN IF viaAfter >= tz.at /\ ~(viaBefore < tz.at) THEN viaAfter ELSE viaBefore

MinFromTime(t) == t % 60

\* new Date(v).getTime()
DateParse(tz, v) ==
  CASE v.t = "undefined" -> NaN
    [] v.t = "null" -> TimeClip(0)
    [] v.t = "number" -> TimeClip(v.n)
    [] v.t = "string" -> NaN
    [] v.t = "datestr" /\ v.z = "Z" -> TimeClip(v.n)
    [] v.t = "datestr" /\ v.z = "offset" -> TimeClip(v.n - v.o)
    [] v.t = "datestr" /\ v.z = "local" -> TimeClip(UTC(tz, v.n))

\* Date.prototype.getMinutes
getMinutes(tz, d) == IF d.nan THEN NaN ELSE Finite(MinFromTime(LocalTime(tz, d.v)))

\* Date.prototype.setMinutes: the minutes field of the local time is
\* replaced and the result is converted back to a time value.
MakeLocal(tz, tl, m) == TimeClip(UTC(tz, tl - MinFromTime(tl) + m))

setMinutes(tz, d, m) ==
  IF d.nan \/ m.nan THEN NaN ELSE MakeLocal(tz, LocalTime(tz, d.v), m.v)

\* Date.prototype.toISOString: [threw |-> TRUE] stands for the RangeError
\* thrown for an invalid date.
toISOString(d) ==
  IF d.nan THEN [threw |-> TRUE, iso |-> Null] ELSE [threw |-> FALSE, iso |-> IsoZ(d.v)]

IsoOrNull(d) == IF d.nan THEN Null ELSE toISOString(d).iso

toIsoOrNull(tz, v) == IsoOrNull(DateParse(tz, v))

Add(a, b) == IF a.nan \/ b.nan THEN NaN ELSE Finite(a.v + b.v)

(* ---------------------------- configuration --------------------------- *)

CredentialNames ==
  {"GOOGLE_CLIENT_ID", "GOOGLE_CLIENT_SECRET", "GOOGLE_REDIRECT_URI", "GOOGLE_REFRESH_TOKEN"}

\* Destructuring defaults of process.env: a default applies to an unset
\* (undefined) variable only.
BOOKING_DURATION_MINUTES(e) ==
  IF e.BOOKING_DURATION_MINUTES.t = "undefined"
  THEN Str(<<"6", "0">>)
  ELSE e.BOOKING_DURATION_MINUTES

DELETE_AVAILABILITY(e) ==
  IF e.DELETE_AVAILABILITY.t = "undefined"
  THEN Str(<<"f", "a", "l", "s", "e">>)
  ELSE e.DELETE_AVAILABILITY

\* requireEnv of all four credentials / the handler's configuration test.
Configured(e) == CredentialNames \subseteq e.creds

(* ------------------------------ validation ---------------------------- *)

EmptySlot ==
  [present |-> FALSE, title |-> Undef, startIso |-> Undef, endIso |-> Undef,
   availabilityEventId |-> Undef]

EmptyCustomer ==
  [present |-> FALSE, name |-> Undef, phone |-> Undef, email |-> Undef, notes |-> Undef]

\* body.slot || {}  and  body.customer || {}
slotOf(body) == IF body.slot.present THEN body.slot ELSE EmptySlot
customerOf(body) == IF body.customer.present THEN body.customer ELSE EmptyCustomer

titleOf(slot) ==
  IF mustString(slot.title) THEN Trimmed(slot.title) ELSE Str(<<"Training Session">>)

\* k || 60
OrSixty(k) == IF k.nan \/ k.v = 0 THEN Finite(60) ELSE k

\* Number(BOOKING_DURATION_MINUTES) || 60
durationMinutes(e) == OrSixty(StringToNumber(BOOKING_DURATION_MINUTES(e).s))

\* d.setMinutes(d.getMinutes() + minutes); d.toISOString()
addMinutes(tz, d, minutes) ==
  toISOString(setMinutes(tz, d, Add(getMinutes(tz, d), minutes)))

\* The fallback end, from new Date(startIso) and the configured minutes.
fallbackEnd(e, startIso) == addMinutes(e.tz, DateParse(e.tz, startIso), durationMinutes(e))

customerValid(customer) ==
  /\ mustString(customer.name)
  /\ mustString(customer.phone)
  /\ isEmail(customer.email)

\* What validation leaves: kind is "badStart", "threw" (an exception reaches
\* the catch block), "badCustomer" or "ok".
validated(kind, slot, startIso, endIso) ==
  [kind |-> kind, title |-> titleOf(slot), startIso |-> startIso, endIso |-> endIso]

\* if (!mustString(customer.name) || ... ) return 400
checkCustomer(slot, customer, startIso, endIso) ==
  validated(IF customerValid(customer) THEN "ok" ELSE "badCustomer", slot, startIso, endIso)

\* if (!endIso) { ...; endIso = d.toISOString(); }
withFallback(slot, customer, startIso, fb) ==
  IF fb.threw
  THEN validated("threw", slot, startIso, Null)
  ELSE checkCustomer(slot, customer, startIso, fb.iso)

validateCustomerFirst(e, slot, customer, startIso, endIso) ==
  IF ~customerValid(customer) THEN validated("badCustomer", slot, startIso, endIso)
  ELSE IF ~Truthy(startIso) THEN validated("badStart", slot, startIso, endIso)
  ELSE IF Truthy(endIso) THEN validated("ok", slot, startIso, endIso)
  ELSE withFallback(slot, customer, startIso, fallbackEnd(e, startIso))

\* The checks in the order of the code: start, end fallback, customer.
validateParsed(e, slot, customer, startIso, endIso) ==
  IF ~Truthy(startIso) THEN validated("badStart", slot, startIso, endIso)
  ELSE IF Truthy(endIso) THEN checkCustomer(slot, customer, startIso, endIso)
  ELSE withFallback(slot, customer, startIso, fallbackEnd(e, startIso))

\* The synchronous head of the handler, from reading the body to the
\* customer check.
validate(e, body) ==
  validateParsed(e, slotOf(body), customerOf(body),
                 toIsoOrNull(e.tz, slotOf(body).startIso),
                 toIsoOrNull(e.tz, slotOf(body).endIso))

(* ------------------------------ responses ----------------------------- *)

ErrorResponse(status, msg) ==
  [status |-> status, ok |-> FALSE, error |-> msg, eventId |-> Undef, htmlLink |-> Undef]

InvalidStart == ErrorResponse(400, "Invalid start time.")
InvalidCustomer == ErrorResponse(400, "Please provide name, phone, and a valid email.")
SlotConflict == ErrorResponse(409, "That slot was just booked. Please pick another time.")
ServerErrorWithDetail == ErrorResponse(500, "invalid_grant")

ServerError == ErrorResponse(500, "Server error creating booking.")
NotConfigured == ErrorResponse(500, "Server not configured (missing Google OAuth env vars).")
MethodNotAllowed == ErrorResponse(405, "Method not allowed")
Preflight == ErrorResponse(204, "")

\* x || null
OrNull(v) == IF Truthy(v) THEN v ELSE Null

SuccessAsReturned(created) ==
  [status |-> 200, ok |-> TRUE, error |-> "",
   eventId |-> created.id, htmlLink |-> created.htmlLink]

\* res.json({ ok: true, eventId: created?.data?.id || null, htmlLink: ... })
Success(created) ==
  [status |-> 200, ok |-> TRUE, error |-> "",
   eventId |-> OrNull(created.id), htmlLink |-> OrNull(created.htmlLink)]

(* --------------------------- the collaborator ------------------------- *)

\* The instant the calendar service reads from an RFC 3339 date-time.
InstantOf(v) == DateParse([before |-> 0, after |-> 0, at |-> 0], v).v

\* The busy intervals the service reports for [timeMin, timeMax).
Overlapping(events, timeMin, timeMax) ==
  {ev \in events : ev.start < InstantOf(timeMax) /\ InstantOf(timeMin) < ev.end}

\* What events.insert may return as the created event's data.
InsertResults ==
  { [id |-> Str(<<"e">>), htmlLink |-> Str(<<"h">>)],
    [id |-> Str(<<>>), htmlLink |-> Str(<<"h">>)],
    [id |-> Null, htmlLink |-> Str(<<>>)],
    [id |-> Undef, htmlLink |-> Undef] }

NoCreated == [id |-> Undef, htmlLink |-> Undef]

Call(op, timeMin, timeMax, eventId, summary) ==
  [op |-> op, timeMin |-> timeMin, timeMax |-> timeMax, eventId |-> eventId,
   summary |-> summary, state |-> "pending"]

\* The characters between title and name in the summary template: an em
\* dash (U+2014) in the serverless handler; in server.js the three
\* characters U+00E2 U+20AC U+201D.
separator(impl) ==
  IF impl = "serverless" THEN <<"U+2014">> ELSE <<"U+00E2", "U+20AC", "U+201D">>

\* `BOOKED: ${title} <separator> ${customer.name}`
summaryOf(impl, title, customer) ==
  <<"BOOKED: ">> \o title.s \o <<" ">> \o separator(impl) \o <<" ">> \o customer.name.s

(* ------------------------------ one request --------------------------- *)

NoRequest == [method |-> "", body |-> [slot |-> EmptySlot, customer |-> EmptyCustomer]]

NoLocals ==
  [title |-> Undef, startIso |-> Undef, endIso |-> Undef, answered |-> "",
   busy |-> {}, seen |-> {}, created |-> NoCreated]

\* The methods that reach the handler: Express routes POST only.
Methods(impl) == IF impl = "express" THEN {"POST"} ELSE {"POST", "OPTIONS", "GET"}

RespondTwice(r, response, reached) ==
  /\ resp' = [resp EXCEPT ![r] = Append(Append(@, response), ServerError)]
  /\ stages' = [stages EXCEPT ![r] = @ \o reached \o <<"Responded">>]
  /\ pc' = [pc EXCEPT ![r] = "responded"]

\* res.status(..).json(..) / res.status(204).end(): the response is sent and
\* the handler returns.
Respond(r, response, reached) ==
  /\ resp' = [resp EXCEPT ![r] = Append(@, response)]
  /\ stages' = [stages EXCEPT ![r] = @ \o reached \o <<"Responded">>]
  /\ pc' = [pc EXCEPT ![r] = "responded"]

\* An awaited call settles: it resolves ("ok") or rejects ("threw").
Settle(r, outcome) ==
  calls' = [calls EXCEPT ![r] = [@ EXCEPT ![Len(@)].state = outcome]]

IssueWithoutAwait(r, outcome, call) ==
  calls' = [calls EXCEPT ![r] = Append(@, call)]

\* An awaited call settles and the handler's next call is issued.
SettleAndIssue(r, outcome, call) ==
  calls' = [calls EXCEPT ![r] = Append([@ EXCEPT ![Len(@)].state = outcome], call)]

answer(response, v) == [respond |-> TRUE, response |-> response, v |-> v]

decideValidationFirst(e, request, v) ==
  IF e.impl = "serverless" /\ request.method = "OPTIONS" THEN answer(Preflight, v)
  ELSE IF e.impl = "serverless" /\ request.method # "POST" THEN answer(MethodNotAllowed, v)
  ELSE IF v.kind = "badStart" THEN answer(InvalidStart, v)
  ELSE IF v.kind = "threw" THEN answer(ServerError, v)
  ELSE IF v.kind = "badCustomer" THEN answer(InvalidCustomer, v)
  ELSE IF e.impl = "serverless" /\ ~Configured(e) THEN answer(NotConfigured, v)
  ELSE [respond |-> FALSE, response |-> Preflight, v |-> v]

\* The method and configuration tests of the serverless handler, then the
\* outcome v of validation.
decide(e, request, v) ==
  IF e.impl = "serverless" /\ request.method = "OPTIONS" THEN answer(Preflight, v)
  ELSE IF e.impl = "serverless" /\ request.method # "POST" THEN answer(MethodNotAllowed, v)
  ELSE IF e.impl = "serverless" /\ ~Configured(e) THEN answer(NotConfigured, v)
  ELSE IF v.kind = "badStart" THEN answer(InvalidStart, v)
  ELSE IF v.kind = "threw" THEN answer(ServerError, v)
  ELSE IF v.kind = "badCustomer" THEN answer(InvalidCustomer, v)
  ELSE [respond |-> FALSE, response |-> Preflight, v |-> v]

\* What the handler decides before its first await: either a response, or
\* the values the free/busy query is made with.
head(e, request) == decide(e, request, validate(e, request.body))

\* The handler's run to its first await: it answers, or issues the
\* free/busy query and awaits it.
HandleWith(r, request, h) ==
  /\ req' = [req EXCEPT ![r] = request]
  /\ \/ /\ h.respond
        /\ Respond(r, h.response, <<"Received">>)
        /\ UNCHANGED <<loc, calls>>
     \/ /\ ~h.respond
        /\ loc' = [loc EXCEPT ![r].title = h.v.title,
                              ![r].startIso = h.v.startIso,
                              ![r].endIso = h.v.endIso]
        /\ calls' = [calls EXCEPT ![r] =
             Append(@, Call("freebusy.query", h.v.startIso, h.v.endIso, Undef, <<>>))]
        /\ stages' = [stages EXCEPT ![r] = <<"Received", "Validated">>]
        /\ pc' = [pc EXCEPT ![r] = "fbWait"]
        /\ UNCHANGED resp

\* The framework hands a request to the handler.
Handle(r, bodies) ==
  /\ pc[r] = "idle"
  /\ \E m \in Methods(env.impl), b \in bodies :
       HandleWith(r, [method |-> m, body |-> b], head(env, [method |-> m, body |-> b]))
  /\ UNCHANGED <<env, calendar, placeholders>>

isBusyOffByOne(busy) == Cardinality(busy) > 1

isBusyAlways(busy) == Cardinality(busy) >= 0

\* busy.length > 0
isBusy(busy) == Cardinality(busy) > 0

\* freebusy.query rejects: the catch block answers.
FreeBusyThrows(r) ==
  /\ pc[r] = "fbWait"
  /\ Settle(r, "threw")
  /\ loc' = [loc EXCEPT ![r].answered = "threw"]
  /\ Respond(r, ServerError, <<>>)
  /\ UNCHANGED <<env, req, calendar, placeholders>>

busyOfMissingIsBusy(entry, events, timeMin, timeMax) ==
  IF entry THEN Overlapping(events, timeMin, timeMax) ELSE {[owner |-> 0, start |-> 0, end |-> 0]}

\* fb?.data?.calendars?.[GOOGLE_CALENDAR_ID]?.busy || []: the busy list of
\* the calendar's entry, or the empty list when the answer has no entry (or
\* no busy list) for the calendar.
busyOf(entry, events, timeMin, timeMax) ==
  IF entry THEN Overlapping(events, timeMin, timeMax) ELSE {}

\* freebusy.query resolves, with or without an entry for the calendar:
\* fb?.data?.calendars?.[GOOGLE_CALENDAR_ID]?.busy || [], the busy test and
\* the events.insert call.
FreeBusyReturns(r) ==
  /\ pc[r] = "fbWait"
  /\ \E entry \in BOOLEAN :
       LET q == calls[r][Len(calls[r])]
           busy == busyOf(entry, calendar, q.timeMin, q.timeMax)
           customer == customerOf(req[r].body)
       IN /\ loc' = [loc EXCEPT ![r].answered = IF entry THEN "entry" ELSE "noEntry",
                                ![r].busy = busy, ![r].seen = calendar]
          /\ IF isBusy(busy)
             THEN Settle(r, "ok") /\ Respond(r, SlotConflict, <<>>)
             ELSE /\ SettleAndIssue(r, "ok",
                       Call("events.insert", loc[r].startIso, loc[r].endIso, Undef,
                            summaryOf(env.impl, loc[r].title, customer)))
                  /\ stages' = [stages EXCEPT ![r] = Append(@, "AvailabilityConfirmed")]
                  /\ pc' = [pc EXCEPT ![r] = "insWait"]
                  /\ UNCHANGED resp
  /\ UNCHANGED <<env, req, calendar, placeholders>>

\* events.insert rejects: the catch block answers.
InsertThrows(r) ==
  /\ pc[r] = "insWait"
  /\ Settle(r, "threw")
  /\ Respond(r, ServerError, <<>>)
  /\ UNCHANGED <<env, req, loc, calendar, placeholders>>

shouldDeleteAnyFlag(e, slot) ==
  /\ Truthy(DELETE_AVAILABILITY(e))
  /\ mustString(slot.availabilityEventId)

\* DELETE_AVAILABILITY === "true" && mustString(slot.availabilityEventId)
shouldDelete(e, slot) ==
  /\ DELETE_AVAILABILITY(e) = Str(<<"t", "r", "u", "e">>)
  /\ mustString(slot.availabilityEventId)

\* events.insert resolves: the event is in the calendar; the cleanup test,
\* then either the events.delete call or the success response.
InsertReturns(r) ==
  /\ pc[r] = "insWait"
  /\ \E created \in InsertResults :
       LET q == calls[r][Len(calls[r])]
           slot == slotOf(req[r].body)
       IN /\ calendar' = calendar \cup
               {[owner |-> r, start |-> InstantOf(q.timeMin), end |-> InstantOf(q.timeMax)]}
          /\ loc' = [loc EXCEPT ![r].created = created]
          /\ IF shouldDelete(env, slot)
             THEN /\ SettleAndIssue(r, "ok",
                       Call("events.delete", Undef, Undef, slot.availabilityEventId, <<>>))
                  /\ stages' = [stages EXCEPT ![r] = @ \o <<"EventCreated", "CleanupAttempted">>]
                  /\ pc' = [pc EXCEPT ![r] = "delWait"]
                  /\ UNCHANGED resp
             ELSE Settle(r, "ok") /\ Respond(r, Success(created), <<"EventCreated">>)
  /\ UNCHANGED <<env, req, placeholders>>

afterDeleteRethrow(created, outcome) ==
  IF outcome = "threw" THEN ServerError ELSE Success(created)

\* What the handler answers once the cleanup has been attempted.
afterDelete(created, outcome) == Success(created)

\* events.delete resolves (the placeholder existed) or rejects; the inner
\* catch discards the failure.
DeleteSettles(r) ==
  /\ pc[r] = "delWait"
  /\ \E outcome \in {"ok", "threw"} :
       LET q == calls[r][Len(calls[r])] IN
         /\ outcome = "ok" => q.eventId \in placeholders
         /\ placeholders' = IF outcome = "ok" THEN placeholders \ {q.eventId} ELSE placeholders
         /\ Settle(r, outcome)
         /\ Respond(r, afterDelete(loc[r].created, outcome), <<>>)
  /\ UNCHANGED <<env, req, loc, calendar>>

(* ------------------------------- inputs ------------------------------- *)

UtcZone == [before |-> 0, after |-> 0, at |-> 0]

\* A zone whose clocks are set back one hour at instant 120.
FallBackZone == [before |-> 60, after |-> 0, at |-> 120]

Zones == {UtcZone, FallBackZone}

DurationSettings ==
  {Undef, Str(<<"3", "0">>), Str(<<"0">>), Str(<<"a", "b", "c">>), Str(<<"-", "3", "0">>)}

DeleteSettings == {Undef, Str(<<"t", "r", "u", "e">>), Str(<<"T", "R", "U", "E">>)}

CredentialSettings ==
  {CredentialNames, CredentialNames \ {"GOOGLE_REFRESH_TOKEN"}, {}}

\* The environments a running deployment can have: the Express application
\* only starts when requireEnv passes for all four credentials.
Envs ==
  { e \in [impl : {"express", "serverless"}, creds : CredentialSettings,
           DELETE_AVAILABILITY : DeleteSettings,
           BOOKING_DURATION_MINUTES : DurationSettings, tz : Zones] :
      e.impl = "express" => Configured(e) }

StartValues ==
  {Undef, Null, Str(<<"x">>), IsoZ(90), DateStr(150, "local", 0), IsoZ(MaxInstant)}

EndValues == {Undef, Str(<<"x">>), IsoZ(150), IsoZ(30)}

NameValues == {Undef, Str(<<" ">>), Str(<<"J">>)}
PhoneValues == {Str(<<>>), Num(5), Str(<<"5">>)}
EmailValues == {Undef, Str(<<"a", "@", "b">>), Str(<<"a", "@", "b", ".", "c">>)}

PlaceholderId == Str(<<"a">>)

GoodCustomer ==
  [present |-> TRUE, name |-> Str(<<"J">>), phone |-> Str(<<"5">>),
   email |-> Str(<<"a", "@", "b", ".", "c">>), notes |-> Undef]

Slots ==
  {EmptySlot} \cup
  [present : {TRUE}, title : {Undef}, startIso : StartValues, endIso : EndValues,
   availabilityEventId : {Undef}]

Customers ==
  {EmptyCustomer} \cup
  [present : {TRUE}, name : NameValues, phone : PhoneValues, email : EmailValues,
   notes : {Undef}]

\* Bodies that vary what validation reads, and bodies that pass validation
\* and vary what the insert and the cleanup read.
ValidationBodies == [slot : Slots, customer : Customers]

BookingBodies ==
  [slot : [present : {TRUE}, title : {Undef, Str(<<" ", "T", " ">>), Str(<<" ">>)},
           startIso : {IsoZ(90)}, endIso : {Undef, IsoZ(150)},
           availabilityEventId : {Undef, Str(<<" ">>), PlaceholderId, Str(<<"z">>)}],
   customer : {GoodCustomer, [GoodCustomer EXCEPT !.notes = Str(<<" ", "n">>)]}]

Bodies == ValidationBodies \cup BookingBodies

\* An event already in the calendar when the request arrives.
ExistingEvent == [owner |-> 0, start |-> 60, end |-> 120]

(* ---------------------------- specifications -------------------------- *)

InitWith(envs, calendars) ==
  /\ env \in envs
  /\ pc = [r \in AllReqs |-> "idle"]
  /\ req = [r \in AllReqs |-> NoRequest]
  /\ loc = [r \in AllReqs |-> NoLocals]
  /\ calls = [r \in AllReqs |-> <<>>]
  /\ resp = [r \in AllReqs |-> <<>>]
  /\ stages = [r \in AllReqs |-> <<>>]
  /\ calendar \in calendars
  /\ placeholders = {PlaceholderId}

\* The steps of a request in flight.
Step(r) ==
  \/ FreeBusyThrows(r)
  \/ FreeBusyReturns(r)
  \/ InsertThrows(r)
  \/ InsertReturns(r)
  \/ DeleteSettles(r)

\* One request at a time, every payload and every environment.
Init == InitWith(Envs, {{}, {ExistingEvent}})

Next == Handle(1, Bodies) \/ Step(1)

Spec == Init /\ [][Next]_vars

\* Concurrent requests against one calendar that starts free. The bodies
\* book [30, 90) and [60, 120); one body fails validation.
RaceEnvs ==
  {e \in Envs : /\ Configured(e)
                /\ e.BOOKING_DURATION_MINUTES = Undef
                /\ e.tz = UtcZone
                /\ e.DELETE_AVAILABILITY \in {Undef, Str(<<"t", "r", "u", "e">>)}}

RaceSlot(startIso, endIso, id) ==
  [present |-> TRUE, title |-> Undef, startIso |-> startIso, endIso |-> endIso,
   availabilityEventId |-> id]

RaceBodies ==
  { [slot |-> RaceSlot(IsoZ(30), Undef, Undef), customer |-> GoodCustomer],
    [slot |-> RaceSlot(IsoZ(60), Undef, PlaceholderId), customer |-> GoodCustomer],
    [slot |-> RaceSlot(IsoZ(30), Undef, Undef), customer |-> EmptyCustomer] }

InitRace == InitWith(RaceEnvs, {{}})

NextRace == \E r \in AllReqs : Handle(r, RaceBodies) \/ Step(r)

SpecRace == InitRace /\ [][NextRace]_vars

\* One request under fairness: every external call eventually returns or
\* throws, and the handler's continuation then runs to its next await. The
\* bodies take every path of the handler.
LiveEnvs ==
  {e \in Envs : e.tz = UtcZone /\ e.BOOKING_DURATION_MINUTES \in {Undef, Str(<<"a", "b", "c">>)}}

LiveBodies ==
  BookingBodies \cup
  [slot : {EmptySlot, RaceSlot(IsoZ(MaxInstant), Undef, Undef), RaceSlot(IsoZ(90), Undef, Undef)},
   customer : {EmptyCustomer, GoodCustomer}]

InitLive == InitWith(LiveEnvs, {{}, {ExistingEvent}})

NextLive == Handle(1, LiveBodies) \/ Step(1)

SpecLive == InitLive /\ [][NextLive]_vars /\ WF_vars(Step(1))

(* ------------------------------- claims ------------------------------- *)

Positions(r, op) == {i \in 1 .. Len(calls[r]) : calls[r][i].op = op}

Issued(r, op) == Positions(r, op) # {}

Responded(r) == pc[r] = "responded"

\* The event a request's insert commits.
EventOf(r) ==
  [owner |-> r, start |-> InstantOf(loc[r].startIso), end |-> InstantOf(loc[r].endIso)]

\* C1: an events.insert call is issued only after exactly one
\* freebusy.query of the same request returned normally with no busy
\* interval for the target calendar (an answer without an entry for the
\* calendar carries none); never while the query is pending, after it
\* failed, or after a non-empty busy answer.
C1_InsertOnlyAfterFree ==
  \A r \in AllReqs :
    Issued(r, "events.insert") =>
      /\ Positions(r, "freebusy.query") = {1}
      /\ Positions(r, "events.insert") = {2}
      /\ calls[r][1].state = "ok"
      /\ loc[r].answered \in {"entry", "noEntry"}
      /\ loc[r].busy = {}
      /\ loc[r].answered = "entry" =>
           Overlapping(loc[r].seen, calls[r][1].timeMin, calls[r][1].timeMax) = {}

\* A request's insert is in flight while another request's event is already
\* in the calendar.
C1_Witness ==
  \E r \in AllReqs :
    /\ Issued(r, "events.insert")
    /\ calls[r][2].state = "pending"
    /\ \E ev \in calendar : ev.owner # r

SawFree(r) ==
  /\ loc[r].answered \in {"entry", "noEntry"}
  /\ loc[r].busy = {}

Overlap(r1, r2) ==
  /\ InstantOf(loc[r1].startIso) < InstantOf(loc[r2].endIso)
  /\ InstantOf(loc[r2].startIso) < InstantOf(loc[r1].endIso)

\* C2: nothing stands between a free answer and the insert. Whenever two
\* requests for overlapping intervals have both been answered "free", both
\* have issued their insert, and each insert that returned has put its
\* event in the calendar beside the other's and is answered with 200: no
\* lock is taken and the availability is not checked again.
C2_NoLockNoRecheck ==
  \A r1, r2 \in AllReqs :
    (r1 # r2 /\ SawFree(r1) /\ SawFree(r2) /\ Overlap(r1, r2)) =>
      \A r \in {r1, r2} :
        /\ Positions(r, "events.insert") = {2}
        /\ calls[r][2].state = "ok" => EventOf(r) \in calendar
        /\ (calls[r][2].state = "ok" /\ Responded(r)) => resp[r][1].status = 200

\* Double booking: both queries were answered from the empty calendar, then
\* both inserts were committed and both requests answered 200.
C2_DoubleBooked ==
  \E r1, r2 \in AllReqs :
    /\ r1 # r2
    /\ Overlap(r1, r2)
    /\ \A r \in {r1, r2} :
         /\ loc[r].answered = "entry"
         /\ loc[r].seen = {}
         /\ loc[r].busy = {}
         /\ EventOf(r) \in calendar
         /\ Responded(r)
         /\ Len(resp[r]) = 1
         /\ resp[r][1].status = 200
         /\ resp[r][1].ok

\* What a request's payload is, as the claims speak of it.
Slot(r) == slotOf(req[r].body)
Customer(r) == customerOf(req[r].body)
Post(r) == pc[r] # "idle" /\ req[r].method = "POST"
StartParses(r) == ~DateParse(env.tz, Slot(r).startIso).nan
EndParses(r) == ~DateParse(env.tz, Slot(r).endIso).nan
CustomerOk(r) ==
  /\ mustString(Customer(r).name)
  /\ mustString(Customer(r).phone)
  /\ isEmail(Customer(r).email)

\* C3, as claimed, for a deployment whose credentials are configured: a POST
\* whose start time does not parse or whose customer fields are invalid is
\* answered 400 and no external call is issued.
C3_InvalidPayloadGets400 ==
  \A r \in AllReqs :
    (Post(r) /\ Configured(env) /\ Responded(r) /\ (~StartParses(r) \/ ~CustomerOk(r))) =>
      /\ resp[r][1].status = 400
      /\ calls[r] = <<>>

\* C4: a validated request whose free/busy answer lists a busy interval for
\* the target calendar is answered 409 with the slot-conflict message, and
\* issues neither an insert nor a delete.
C4_BusyGets409 ==
  \A r \in AllReqs :
    (loc[r].answered = "entry" /\ loc[r].busy # {}) =>
      /\ Responded(r)
      /\ resp[r] = <<[status |-> 409, ok |-> FALSE,
                      error |-> "That slot was just booked. Please pick another time.",
                      eventId |-> Undef, htmlLink |-> Undef]>>
      /\ ~Issued(r, "events.insert")
      /\ ~Issued(r, "events.delete")

C4_Witness ==
  \E r \in AllReqs :
    /\ loc[r].busy = {ExistingEvent}
    /\ Responded(r)
    /\ StartParses(r) /\ CustomerOk(r)

FixedServerError ==
  [status |-> 500, ok |-> FALSE, error |-> "Server error creating booking.",
   eventId |-> Undef, htmlLink |-> Undef]

\* C5: when the free/busy query or the insert throws, the response is 500
\* with the fixed body, and the failed call is the request's last external
\* call: no insert or delete after a failed query, no delete after a failed
\* insert.
C5_CollaboratorFailureGets500 ==
  \A r \in AllReqs : \A i \in 1 .. Len(calls[r]) :
    (calls[r][i].op \in {"freebusy.query", "events.insert"} /\ calls[r][i].state = "threw") =>
      /\ Responded(r)
      /\ resp[r] = <<FixedServerError>>
      /\ i = Len(calls[r])

\* The insert failed in a request whose cleanup would have run.
C5_Witness ==
  \E r \in AllReqs :
    /\ Len(calls[r]) = 2
    /\ calls[r][2].op = "events.insert"
    /\ calls[r][2].state = "threw"
    /\ Responded(r)
    /\ env.DELETE_AVAILABILITY = Str(<<"t", "r", "u", "e">>)
    /\ Slot(r).availabilityEventId = PlaceholderId

\* C6: once the insert has succeeded and the delete has been attempted, the
\* response is 200 with ok, eventId and htmlLink from the insert result,
\* whether the delete succeeded or threw.
C6_DeleteFailureIsSilent ==
  \A r \in AllReqs :
    (Issued(r, "events.delete") /\ Responded(r)) =>
      /\ calls[r][3].state \in {"ok", "threw"}
      /\ resp[r] = <<[status |-> 200, ok |-> TRUE, error |-> "",
                      eventId |-> OrNull(loc[r].created.id),
                      htmlLink |-> OrNull(loc[r].created.htmlLink)]>>

C6_Witness ==
  \E r \in AllReqs :
    /\ Issued(r, "events.delete")
    /\ calls[r][3].state = "threw"
    /\ Responded(r)
    /\ resp[r][1].eventId = Str(<<"e">>)

FlagIsTrue == env.DELETE_AVAILABILITY = Str(<<"t", "r", "u", "e">>)

\* C7: a request has issued events.delete exactly when the flag is "true",
\* slot.availabilityEventId is a non-blank string and the request's insert
\* has returned successfully; the delete is the call after the insert.
C7_DeleteIffFlagIdAndInsert ==
  \A r \in AllReqs :
    /\ Issued(r, "events.delete") <=>
         /\ FlagIsTrue
         /\ IsString(Slot(r).availabilityEventId)
         /\ Trim(Slot(r).availabilityEventId.s) # <<>>
         /\ Issued(r, "events.insert")
         /\ calls[r][2].state = "ok"
    /\ Issued(r, "events.delete") => Positions(r, "events.delete") = {3}

\* The delete has been issued for the placeholder the payload names.
C7_Witness ==
  \E r \in AllReqs :
    /\ Issued(r, "events.delete")
    /\ calls[r][3].state = "pending"
    /\ calls[r][3].eventId = PlaceholderId
    /\ calls[r][2].state = "ok"
    /\ FlagIsTrue

StageOrder ==
  <<"Received", "Validated", "AvailabilityConfirmed", "EventCreated", "CleanupAttempted">>

IsPrefix(p, q) == Len(p) <= Len(q) /\ SubSeq(q, 1, Len(p)) = p

\* The stage sequences the state machine allows: a prefix of the order,
\* closed by Responded once the response is sent.
StagePath(sq) ==
  \E k \in 0 .. Len(StageOrder) :
    \/ sq = SubSeq(StageOrder, 1, k)
    \/ k >= 1 /\ sq = SubSeq(StageOrder, 1, k) \o <<"Responded">>

StagesInOrder ==
  \A r \in AllReqs :
    /\ StagePath(stages[r])
    /\ Responded(r) <=> (stages[r] # <<>> /\ stages[r][Len(stages[r])] = "Responded")
    /\ Len(resp[r]) = IF Responded(r) THEN 1 ELSE 0

StagesOnlyGrow ==
  \A r \in AllReqs :
    /\ IsPrefix(stages[r], stages'[r])
    /\ Responded(r) => (stages'[r] = stages[r] /\ resp'[r] = resp[r] /\ calls'[r] = calls[r])

\* C8: with every external call eventually returning or throwing, a request
\* handed to the handler eventually reaches Responded with exactly one response;
\* its stages follow Received, Validated, AvailabilityConfirmed,
\* EventCreated, optional CleanupAttempted, Responded, never repeat, and
\* nothing happens after Responded.
C8_StagesAndTermination ==
  /\ []StagesInOrder
  /\ [][StagesOnlyGrow]_vars
  /\ \A r \in AllReqs : (pc[r] # "idle") ~> (Responded(r) /\ Len(resp[r]) = 1)

C8_Witness ==
  \E r \in AllReqs : stages[r] = StageOrder \o <<"Responded">>

\* C9: in a request there is at most one free/busy query, one insert and
\* one delete, in that order, and a call is issued only when every earlier
\* call of the request has returned.
C9_NoRetrySequentialCalls ==
  \A r \in AllReqs :
    /\ IsPrefix([i \in 1 .. Len(calls[r]) |-> calls[r][i].op],
                <<"freebusy.query", "events.insert", "events.delete">>)
    /\ \A op \in {"freebusy.query", "events.insert", "events.delete"} :
         Cardinality(Positions(r, op)) <= 1
    /\ \A i \in 1 .. Len(calls[r]) - 1 : calls[r][i].state # "pending"

\* All three calls were made and the last one failed.
C9_Witness ==
  \E r \in AllReqs :
    /\ Len(calls[r]) = 3
    /\ calls[r][3].state = "threw"
    /\ Responded(r)

\* The duration the configuration states: 60 when unset, else its number.
StatedMinutes ==
  IF env.BOOKING_DURATION_MINUTES = Undef
  THEN Finite(60)
  ELSE StringToNumber(env.BOOKING_DURATION_MINUTES.s)

\* C10, as claimed, for a configured deployment, a duration that is unset or
\* a non-zero whole number, and a sum inside the range of time values: with
\* a valid start and an absent or unparseable end the request is not
\* rejected, and the end given to the free/busy query and to the insert is
\* the start instant plus the duration.
C10_FallbackEndIsStartPlusDuration ==
  \A r \in AllReqs :
    LET start == DateParse(env.tz, Slot(r).startIso).v
        sum == start + StatedMinutes.v
    IN ( /\ Post(r) /\ Configured(env)
         /\ StartParses(r) /\ ~EndParses(r) /\ CustomerOk(r)
         /\ ~StatedMinutes.nan /\ StatedMinutes.v # 0
         /\ ~TimeClip(sum).nan ) =>
           /\ Issued(r, "freebusy.query")
           /\ InstantOf(calls[r][1].timeMin) = start
           /\ InstantOf(calls[r][1].timeMax) = sum
           /\ Issued(r, "events.insert") => InstantOf(calls[r][2].timeMax) = sum

\* The insert of request r returned and the request has been answered.
InsertSucceeded(r) ==
  /\ Issued(r, "events.insert")
  /\ calls[r][2].state = "ok"
  /\ Responded(r)

\* What the claim states for a returned value: the value, or null when the
\* collaborator's response omits it.
AsReturned(v) == IF v.t = "undefined" THEN Null ELSE v

\* C11, as claimed: after a successful insert the response is the 200 whose
\* eventId and htmlLink are exactly the id and link the collaborator
\* returned, each null when the collaborator's response omits it.
C11_ResponseEqualsReturned ==
  \A r \in AllReqs :
    InsertSucceeded(r) =>
      /\ Len(resp[r]) = 1
      /\ resp[r][1].status = 200
      /\ resp[r][1].eventId = AsReturned(loc[r].created.id)
      /\ resp[r][1].htmlLink = AsReturned(loc[r].created.htmlLink)

NonEmptyString(v) == v.t \in {"string", "datestr"} /\ v # Str(<<>>)

\* C11, amended: after a successful insert the response is the 200 (never
\* the 500) whose eventId and htmlLink are the returned id and link when
\* these are non-empty strings, and null when the collaborator's response
\* omits them or gives null or the empty string.
C11_ResponseEqualsReturnedOrNull ==
  \A r \in AllReqs :
    InsertSucceeded(r) =>
      /\ Len(resp[r]) = 1
      /\ resp[r][1].status = 200
      /\ resp[r][1].ok
      /\ resp[r][1].eventId =
           IF NonEmptyString(loc[r].created.id) THEN loc[r].created.id ELSE Null
      /\ resp[r][1].htmlLink =
           IF NonEmptyString(loc[r].created.htmlLink) THEN loc[r].created.htmlLink ELSE Null

\* The collaborator's response carried neither id nor link and the request
\* was answered 200 with both null.
C11_Witness ==
  \E r \in AllReqs :
    /\ InsertSucceeded(r)
    /\ loc[r].created = [id |-> Undef, htmlLink |-> Undef]
    /\ resp[r][1].status = 200
    /\ resp[r][1].eventId = Null
    /\ resp[r][1].htmlLink = Null

\* The title the claims state: slot.title trimmed, or the placeholder when
\* slot.title is absent, not a string, or blank after trimming.
StatedTitle(r) ==
  IF Slot(r).title.t = "string" /\ Trim(Slot(r).title.s) # <<>>
  THEN Trim(Slot(r).title.s)
  ELSE <<"Training Session">>

\* C12, as claimed: the summary of every insert is "BOOKED: ", the title,
\* " \u2014 " (space, em dash U+2014, space), then customer.name.
C12_SummaryIsBookedTitleDashName ==
  \A r \in AllReqs : \A i \in Positions(r, "events.insert") :
    calls[r][i].summary =
      <<"BOOKED: ">> \o StatedTitle(r) \o <<" ", "U+2014", " ">> \o Customer(r).name.s

\* The shape local@domain.tld as the claim words it: a string made of one
\* or more characters that are neither white space nor "@", then "@", one
\* or more such characters, ".", and one or more such characters.
EmailShape(v) ==
  /\ v.t = "string"
  /\ \E a, d \in 1 .. Len(v.s) :
       /\ 1 < a /\ a + 1 < d /\ d < Len(v.s)
       /\ v.s[a] = "@"
       /\ v.s[d] = "."
       /\ \A k \in 1 .. Len(v.s) : k # a => v.s[k] \notin {" ", "\t", "@"}

\* C13, as claimed, for a POST to a configured deployment: an email that is
\* not of the shape local@domain.tld is answered 400 without any external
\* call, whatever the other fields are, and an email of that shape passes
\* the email check.
C13_BadEmailGets400 ==
  \A r \in AllReqs :
    (Post(r) /\ Configured(env)) =>
      /\ ~EmailShape(Customer(r).email) =>
           /\ Responded(r)
           /\ resp[r][1].status = 400
           /\ calls[r] = <<>>
      /\ EmailShape(Customer(r).email) => isEmail(Customer(r).email)

\* C14, as claimed: in every request that reaches the free/busy query the
\* interval end (timeMax) is strictly later than the interval start
\* (timeMin), and the insert is given the same two instants as the query.
C14_EndAfterStartSameInterval ==
  \A r \in AllReqs :
    Issued(r, "freebusy.query") =>
      /\ InstantOf(calls[r][1].timeMin) < InstantOf(calls[r][1].timeMax)
      /\ \A i \in Positions(r, "events.insert") :
           /\ InstantOf(calls[r][i].timeMin) = InstantOf(calls[r][1].timeMin)
           /\ InstantOf(calls[r][i].timeMax) = InstantOf(calls[r][1].timeMax)

\* C15: a free/busy answer that returns normally without an entry (or
\* without a busy list) for the target calendar is treated as free: the
\* insert is issued next, the request is not answered 409, and it is
\* answered 500 only when the insert itself fails.
C15_MissingEntryIsFree ==
  \A r \in AllReqs :
    loc[r].answered = "noEntry" =>
      /\ calls[r][1].state = "ok"
      /\ Positions(r, "events.insert") = {2}
      /\ Responded(r) =>
           /\ resp[r][1].status # 409
           /\ resp[r][1].status = 500 <=> calls[r][2].state = "threw"
           /\ resp[r][1].status = 200 <=> calls[r][2].state = "ok"

\* The answer had no entry although the calendar holds an event inside the
\* requested interval; the event was inserted and the request answered 200.
C15_Witness ==
  \E r \in AllReqs :
    /\ loc[r].answered = "noEntry"
    /\ Overlapping(loc[r].seen, calls[r][1].timeMin, calls[r][1].timeMax) # {}
    /\ Responded(r)
    /\ resp[r][1].status = 200
    /\ EventOf(r) \in calendar

\* A request that reached the payload checks: a POST, and in the serverless
\* handler one that found its credentials.
Validating(r) == Post(r) /\ Configured(env)

\* C16: the start time is checked before the customer fields. A request
\* that reaches validation with an unparseable startIso is answered 400
\* "Invalid start time." whatever its customer fields are; no request with
\* an unparseable startIso is answered with the customer-fields message,
\* which is returned only when startIso parsed.
C16_StartCheckedBeforeCustomer ==
  \A r \in AllReqs :
    /\ (Validating(r) /\ ~StartParses(r)) =>
         /\ Responded(r)
         /\ resp[r] = <<[status |-> 400, ok |-> FALSE, error |-> "Invalid start time.",
                         eventId |-> Undef, htmlLink |-> Undef]>>
    /\ \A i \in 1 .. Len(resp[r]) :
         resp[r][i].error = "Please provide name, phone, and a valid email." =>
           /\ resp[r][i].status = 400
           /\ StartParses(r)
           /\ ~CustomerOk(r)

\* Both faults in one payload, answered with the start-time message.
C16_Witness ==
  \E r \in AllReqs :
    /\ Validating(r)
    /\ Slot(r).startIso = Str(<<"x">>)
    /\ Customer(r).present
    /\ ~CustomerOk(r)
    /\ Responded(r)
    /\ resp[r][1].error = "Invalid start time."

MissingCredential == \E n \in CredentialNames : n \notin env.creds

\* C17: in the serverless handler a request that is not a POST ends with no
\* external call and whatever its payload (204 for OPTIONS, 405 otherwise),
\* and a POST arriving while one of the four credential settings is missing
\* ends with 500 before the payload is validated and before any external
\* call: an invalid payload then yields 500, not 400.
C17_MethodAndCredentialsFirst ==
  \A r \in AllReqs :
    (env.impl = "serverless" /\ pc[r] # "idle") =>
      /\ req[r].method = "OPTIONS" =>
           /\ Responded(r) /\ Len(resp[r]) = 1 /\ calls[r] = <<>>
           /\ resp[r][1].status = 204
      /\ req[r].method \notin {"OPTIONS", "POST"} =>
           /\ Responded(r) /\ Len(resp[r]) = 1 /\ calls[r] = <<>>
           /\ resp[r][1].status = 405
           /\ resp[r][1].error = "Method not allowed"
      /\ (req[r].method = "POST" /\ MissingCredential) =>
           /\ Responded(r) /\ Len(resp[r]) = 1 /\ calls[r] = <<>>
           /\ resp[r][1].status = 500
           /\ resp[r][1].error = "Server not configured (missing Google OAuth env vars)."

\* A POST whose payload has neither a parseable start nor valid customer
\* fields, answered 500 because a credential is missing.
C17_Witness ==
  \E r \in AllReqs :
    /\ env.impl = "serverless"
    /\ req[r].method = "POST"
    /\ env.creds = CredentialNames \ {"GOOGLE_REFRESH_TOKEN"}
    /\ ~StartParses(r)
    /\ ~CustomerOk(r)
    /\ Responded(r)
    /\ resp[r][1].status = 500

====
